---- MODULE Spec2Model ----
(***************************************************************************)
(* Slime water simulation (src/src/main.cpp, mouse.cpp, platform.h).       *)
(*                                                                         *)
(* The state is the program's globals: the cell grid `field`, the          *)
(* GameState `game`, the InputState `input`, the TMouse `mouse` and the     *)
(* pressed flags of the ten sidebar buttons.  One action, update, models    *)
(* the exported update() in full: the host's pointer input, check(), rain,  *)
(* the brushes, the drawing logic and both passes of the stepper.           *)
(*                                                                         *)
(* The grid is scaled down: FIELD_WIDTH x FIELD_HEIGHT is a few cells       *)
(* instead of 300 x 200, the sidebar is three columns wide and each button  *)
(* is one cell, in the source's top-to-bottom order.  The cell values       *)
(* (WALL_VALUE, MAX_WATER, ...) and brush sizes are the program's own.      *)
(***************************************************************************)
EXTENDS Integers, Sequences, FiniteSets

\* ------------------------------------------------------------------------
\* Bounds of the model (platform.h:44-48 scaled down)
\* ------------------------------------------------------------------------
FIELD_WIDTH == 5
FIELD_HEIGHT == 12
SidebarCols == 3

SCREEN_WIDTH == FIELD_WIDTH + SidebarCols
SCREEN_HEIGHT == FIELD_HEIGHT
SIDEBAR_X == FIELD_WIDTH

\* ------------------------------------------------------------------------
\* Program constants (platform.h:50-60)
\* ------------------------------------------------------------------------
WALL_VALUE == 99
MAX_WATER == 97
DRAIN_VALUE == 100
WATER_SPAWN_AMOUNT == 5
ERASER_SIZE == 5
WATER_ADD_RADIUS == 4
DENSITY_FLOW == 2
WaterRandomRange == 5
Byte == 256

\* ------------------------------------------------------------------------
\* Bounds predicates (platform.h:77-99)
\* ------------------------------------------------------------------------
inField(x, y) == x >= 0 /\ x < FIELD_WIDTH /\ y >= 0 /\ y < FIELD_HEIGHT

inFieldInterior(x, y) ==
    x > 0 /\ x < FIELD_WIDTH - 1 /\ y > 0 /\ y < FIELD_HEIGHT - 1

inScreen(x, y) == x >= 0 /\ x < SCREEN_WIDTH /\ y >= 0 /\ y < SCREEN_HEIGHT

abs(x) == IF x < 0 THEN -x ELSE x

\* ------------------------------------------------------------------------
\* IEEE-754 binary32 arithmetic as walkLine uses it.  A float is held as an
\* integer count of units of 2^-FracBits; every value walkLine forms from
\* coordinates below 2^(31-FracBits) with differences up to 2^(FracBits-23)
\* is a whole number of such units.
\* ------------------------------------------------------------------------
FracBits == 27
MantBits == 24

Unit == 2^FracBits

Pow2(k) == 2^k

\* round-to-nearest, ties-to-even of n / d for n, d > 0
RoundDivEven(n, d) ==
    LET q == n \div d
        r == n % d
    IN  IF 2 * r > d \/ (2 * r = d /\ q % 2 = 1) THEN q + 1 ELSE q

\* number of low bits a magnitude of n units loses to keep MantBits bits
DropBits(n) ==
    IF n < Pow2(MantBits) THEN 0
    ELSE IF n < Pow2(MantBits + 1) THEN 1
    ELSE IF n < Pow2(MantBits + 2) THEN 2
    ELSE IF n < Pow2(MantBits + 3) THEN 3
    ELSE IF n < Pow2(MantBits + 4) THEN 4
    ELSE IF n < Pow2(MantBits + 5) THEN 5
    ELSE IF n < Pow2(MantBits + 6) THEN 6
    ELSE 7

\* the binary32 nearest to an exact value of n units
FloatRound(n) ==
    LET m == abs(n)
        k == DropBits(m)
        v == RoundDivEven(m, Pow2(k)) * Pow2(k)
    IN  IF k = 0 THEN n ELSE IF n < 0 THEN -v ELSE v

\* static_cast<float>(int)
FloatOfInt(i) == i * Unit

\* float + float
FloatAdd(a, b) == FloatRound(a + b)

\* the least k >= 0 with n * 2^k >= d, for 0 < n
QuotShift(n, d) == CHOOSE k \in 0..FracBits : n * Pow2(k) >= d /\ (k = 0 \/ n * Pow2(k - 1) < d)

\* float / float of two whole numbers p / q with |p| <= |q|, q # 0
FloatDivInts(p, q) ==
    LET n == abs(p)
        d == abs(q)
        k == QuotShift(n, d)
        \* the quotient lies in [2^-k, 2^(1-k)): MantBits bits end at 2^-(k+MantBits-1)
        m == RoundDivEven(n * Pow2(k + MantBits - 1), d)
        v == m * Pow2(FracBits - (k + MantBits - 1))
    IN  IF n = 0 THEN 0
        ELSE IF (p < 0) = (q < 0) THEN v ELSE -v

\* static_cast<int>(float): truncation toward zero
IntOfFloat(a) == IF a >= 0 THEN a \div Unit ELSE -((-a) \div Unit)

\* ------------------------------------------------------------------------
\* walkLine (main.cpp:226-269): the cells the callback is invoked on, in order
\* ------------------------------------------------------------------------
\* the x-major loop with "x < x2" for "x <= x2"
RECURSIVE walkXOpen(_, _, _, _)
walkXOpen(x, x2, cy, iy) ==
    IF x >= x2 THEN <<>>
    ELSE LET c == FloatAdd(cy, iy)
         IN  <<(<<x, IntOfFloat(c)>>)>> \o walkXOpen(x + 1, x2, c, iy)

RECURSIVE walkX(_, _, _, _)
walkX(x, x2, cy, iy) ==
    IF x > x2 THEN <<>>
    ELSE LET c == FloatAdd(cy, iy)
         IN  <<(<<x, IntOfFloat(c)>>)>> \o walkX(x + 1, x2, c, iy)

RECURSIVE walkY(_, _, _, _)
walkY(y, y2, cx, ix) ==
    IF y > y2 THEN <<>>
    ELSE LET c == FloatAdd(cx, ix)
         IN  <<(<<IntOfFloat(c), y>>)>> \o walkY(y + 1, y2, c, ix)

\* walkLine without the swap of the endpoints on y (lines 258-262): the
\* y-major loop runs from y1 as given
walkLineNoSwap(zx1, zy1, zx2, zy2) ==
    LET x1 == IF zx1 <= zx2 THEN zx1 ELSE zx2
        y1 == IF zx1 <= zx2 THEN zy1 ELSE zy2
        x2 == IF zx1 <= zx2 THEN zx2 ELSE zx1
        y2 == IF zx1 <= zx2 THEN zy2 ELSE zy1
        dx == x2 - x1
        dy == y2 - y1
    IN  IF x1 = x2 /\ y1 = y2 THEN <<>>
        ELSE IF abs(dx) > abs(dy)
        THEN walkX(x1, x2, FloatOfInt(y1), FloatDivInts(dy, dx))
        ELSE walkY(y1, y2, FloatOfInt(x1), abs(FloatDivInts(dx, dy)))

walkLine(zx1, zy1, zx2, zy2) ==
    LET x1 == IF zx1 <= zx2 THEN zx1 ELSE zx2
        y1 == IF zx1 <= zx2 THEN zy1 ELSE zy2
        x2 == IF zx1 <= zx2 THEN zx2 ELSE zx1
        y2 == IF zx1 <= zx2 THEN zy2 ELSE zy1
        dx == x2 - x1
        dy == y2 - y1
    IN  IF x1 = x2 /\ y1 = y2 THEN <<>>
        ELSE IF abs(dx) > abs(dy)
        THEN \* x-major: x1 <= x2 already, the swap of line 250 never fires
             walkX(IF x1 > x2 THEN x2 ELSE x1, IF x1 > x2 THEN x1 ELSE x2,
                   FloatOfInt(y1), FloatDivInts(dy, dx))
        ELSE \* y-major: ix = abs(dx / dy), negated and restarted from x2
             \* when the endpoints are swapped on y
             LET ixAbs == abs(FloatDivInts(dx, dy))
             IN  IF y1 > y2
                 THEN walkY(y2, y1, FloatOfInt(x2), -ixAbs)
                 ELSE walkY(y1, y2, FloatOfInt(x1), ixAbs)

lineCells(zx1, zy1, zx2, zy2) ==
    LET w == walkLine(zx1, zy1, zx2, zy2)
    IN  {w[i] : i \in 1..Len(w)}

\* ------------------------------------------------------------------------
\* The grid (main.cpp:37) and its cell values
\* ------------------------------------------------------------------------
Cols == 0..(SCREEN_WIDTH - 1)
Rows == 0..(SCREEN_HEIGHT - 1)

\* uint8_t arithmetic
U8(v) == v % Byte

isWater(v) == v < WALL_VALUE

\* border stamping that leaves the right-hand column FIELD_WIDTH-1 open
stampBordersOpenRight(f) ==
    [x \in Cols |-> [y \in Rows |->
        IF x < FIELD_WIDTH /\ (y = 0 \/ y = FIELD_HEIGHT - 1) THEN WALL_VALUE
        ELSE IF y < FIELD_HEIGHT /\ x = 0 THEN WALL_VALUE
        ELSE f[x][y]]]

\* the border stamping of resetField / clearWater (main.cpp:319-326, 347-354)
stampBorders(f) ==
    [x \in Cols |-> [y \in Rows |->
        IF x < FIELD_WIDTH /\ (y = 0 \/ y = FIELD_HEIGHT - 1) THEN WALL_VALUE
        ELSE IF y < FIELD_HEIGHT /\ (x = 0 \/ x = FIELD_WIDTH - 1) THEN WALL_VALUE
        ELSE f[x][y]]]

\* resetField that clears only the water cells, as clearWater does
resetFieldKeepsWalls(c) ==
    [c EXCEPT !.field = stampBorders([x \in Cols |-> [y \in Rows |->
                            IF c.field[x][y] < WALL_VALUE THEN 0 ELSE c.field[x][y]]]),
              !.game.rainmode = FALSE]

\* resetField (main.cpp:313-328) on c = [field, game, buttons]
resetField(c) ==
    [c EXCEPT !.field = stampBorders([x \in Cols |-> [y \in Rows |-> 0]]),
              !.game.rainmode = FALSE]

\* clearLines looping over the whole field, border included
clearLinesBorder(f) ==
    [x \in Cols |-> [y \in Rows |->
        IF x >= 0 /\ x < FIELD_WIDTH /\ y >= 0 /\ y < FIELD_HEIGHT
           /\ f[x][y] = WALL_VALUE
        THEN 0 ELSE f[x][y]]]

\* clearLines (main.cpp:330-337)
clearLines(f) ==
    [x \in Cols |-> [y \in Rows |->
        IF x >= 1 /\ x < FIELD_WIDTH - 1 /\ y >= 1 /\ y < FIELD_HEIGHT - 1
           /\ f[x][y] = WALL_VALUE
        THEN 0 ELSE f[x][y]]]

\* clearWater that leaves the rain flag as it is
clearWaterKeepsRain(c) ==
    [c EXCEPT !.field = stampBorders([x \in Cols |-> [y \in Rows |->
                            IF x < FIELD_WIDTH /\ y < FIELD_HEIGHT /\ c.field[x][y] < WALL_VALUE
                            THEN 0 ELSE c.field[x][y]]])]

\* clearWater (main.cpp:339-356) on c = [field, game, buttons]
clearWater(c) ==
    [c EXCEPT !.field = stampBorders([x \in Cols |-> [y \in Rows |->
                            IF x < FIELD_WIDTH /\ y < FIELD_HEIGHT /\ c.field[x][y] < WALL_VALUE
                            THEN 0 ELSE c.field[x][y]]]),
              !.game.rainmode = FALSE]

\* random_int(max) (platform.h:25), the n-th call of one update: the host's
\* generator is an input, drawn as a tape start + n * step
random_int(tape, n, max) == (tape.start + n * tape.step) % max

\* the test of addWater without its wall half (line 366)
addWaterHitsWalls(f, px, py) == inFieldInterior(px, py)

\* addWater (main.cpp:358-372): the test of lines 365-366 on cell (px, py)
addWaterHits(f, px, py) == inFieldInterior(px, py) /\ f[px][py] < WALL_VALUE

\* lines 363-369 on w = [f, n]: the grid and the number of random_int calls
\* made so far; (px, py) = (qx + mmx, qy + mmy)
addWaterCell(w, px, py, tape) ==
    IF addWaterHits(w.f, px, py)
    THEN [f |-> [w.f EXCEPT ![px][py] = random_int(tape, w.n, WaterRandomRange)],
          n |-> w.n + 1]
    ELSE w

\* the inner loop: qy from -2 * WATER_ADD_RADIUS up to -1
RECURSIVE addWaterRows(_, _, _, _, _, _)
addWaterRows(w, mmx, mmy, tape, qx, qy) ==
    IF qy >= 0 THEN w
    ELSE IF ~addWaterHits(w.f, qx + mmx, qy + mmy)
    THEN addWaterRows(w, mmx, mmy, tape, qx, qy + 1)
    ELSE addWaterRows(addWaterCell(w, qx + mmx, qy + mmy, tape),
                      mmx, mmy, tape, qx, qy + 1)

\* the outer loop: qx from -WATER_ADD_RADIUS up to WATER_ADD_RADIUS
RECURSIVE addWaterCols(_, _, _, _, _)
addWaterCols(w, mmx, mmy, tape, qx) ==
    IF qx > WATER_ADD_RADIUS THEN w
    ELSE IF \A qy \in (-2 * WATER_ADD_RADIUS)..(-1) : ~addWaterHits(w.f, qx + mmx, qy + mmy)
    THEN addWaterCols(w, mmx, mmy, tape, qx + 1)
    ELSE addWaterCols(addWaterRows(w, mmx, mmy, tape, qx, -2 * WATER_ADD_RADIUS),
                      mmx, mmy, tape, qx + 1)

addWater(f, mmx, mmy, tape) ==
    addWaterCols([f |-> f, n |-> 0], mmx, mmy, tape, -WATER_ADD_RADIUS).f

\* the square both erasers sweep (main.cpp:375-378, 387-390)
inEraser(mx, my, x, y) ==
    /\ x >= mx - 2 /\ x < mx - 2 + ERASER_SIZE
    /\ y >= my - 2 /\ y < my - 2 + ERASER_SIZE

\* killWall without the interior guard of line 379: the field guard instead
killWallInField(f, mx, my) ==
    [x \in Cols |-> [y \in Rows |->
        IF inEraser(mx, my, x, y) /\ inField(x, y) /\ f[x][y] = WALL_VALUE
        THEN 0 ELSE f[x][y]]]

\* killWall (main.cpp:374-384)
killWall(f, mx, my) ==
    [x \in Cols |-> [y \in Rows |->
        IF inEraser(mx, my, x, y) /\ inFieldInterior(x, y) /\ f[x][y] = WALL_VALUE
        THEN 0 ELSE f[x][y]]]

\* killWater sweeping one column and one row too few
killWaterShort(f, mx, my) ==
    [x \in Cols |-> [y \in Rows |->
        IF /\ x >= mx - 2 /\ x < mx - 2 + ERASER_SIZE - 1
           /\ y >= my - 2 /\ y < my - 2 + ERASER_SIZE - 1
           /\ inFieldInterior(x, y) /\ f[x][y] < WALL_VALUE
        THEN 0 ELSE f[x][y]]]

\* killWater (main.cpp:386-396)
killWater(f, mx, my) ==
    [x \in Cols |-> [y \in Rows |->
        IF inEraser(mx, my, x, y) /\ inFieldInterior(x, y) /\ f[x][y] < WALL_VALUE
        THEN 0 ELSE f[x][y]]]

\* the callback of logic_line with st = 1 over the walked cells
wallCells(f, cells) ==
    [x \in Cols |-> [y \in Rows |->
        IF <<x, y>> \in cells /\ inField(x, y) THEN WALL_VALUE ELSE f[x][y]]]

\* logic_line with st = 1 (main.cpp:283-292): every walked cell inside the
\* field becomes a wall
logic_line(f, zx1, zy1, zx2, zy2) == wallCells(f, lineCells(zx1, zy1, zx2, zy2))

\* ------------------------------------------------------------------------
\* Sidebar buttons (main.cpp:45, 504-533).  Slot a of buttons[] keeps its
\* source index; its rectangle is the one sidebar cell of row buttonRow[a].
\* ------------------------------------------------------------------------
Tool_Pencil == 1
Tool_EraserWall == 2
Tool_EraserWater == 3
Tool_Line == 4
Tool_Free == 5

Action_Reset == 10
Action_Pause == 11
Action_ClearLines == 12
Action_ClearWater == 13
Action_Rain == 22

NumButtons == 10

Buttons == 0..(NumButtons - 1)

\* setupBtn calls, top to bottom: 0, 1, 2, 3, 4, 5, 6, 8, 9, 7
buttonRow == [a \in Buttons |->
    CASE a = 0 -> 1 [] a = 1 -> 2 [] a = 2 -> 3 [] a = 3 -> 4 [] a = 4 -> 5
      [] a = 5 -> 6 [] a = 6 -> 7 [] a = 8 -> 8 [] a = 9 -> 9 [] a = 7 -> 10]

buttonTag == [a \in Buttons |->
    CASE a = 0 -> Action_Rain [] a = 6 -> Action_Pause [] a = 7 -> Action_Reset
      [] a = 8 -> Action_ClearLines [] a = 9 -> Action_ClearWater [] OTHER -> 0]

buttonX1 == SIDEBAR_X + 1
buttonX2 == SCREEN_WIDTH - 2

\* main.cpp:530-533
isToggler(a) == buttonTag[a] >= 10

\* TMouse::checkInside (mouse.cpp:35-37) on the rectangle of button a
checkInside(m, a) ==
    m.x >= buttonX1 /\ m.x <= buttonX2 /\ m.y >= buttonRow[a] /\ m.y <= buttonRow[a]

\* selectTool that presses the chosen button and leaves the other two alone
selectToolNoRelease(c, tool) ==
    [c EXCEPT
        !.buttons = [@ EXCEPT ![tool] = TRUE],
        !.game.eraser = CASE tool = Tool_Pencil -> "None"
                          [] tool = Tool_EraserWall -> "Wall"
                          [] tool = Tool_EraserWater -> "Water"
                          [] OTHER -> @]

\* selectTool (main.cpp:405-425) on c = [field, game, buttons]
selectTool(c, tool) ==
    [c EXCEPT
        !.buttons = [@ EXCEPT ![Tool_Pencil] = (tool = Tool_Pencil),
                              ![Tool_EraserWall] = (tool = Tool_EraserWall),
                              ![Tool_EraserWater] = (tool = Tool_EraserWater)],
        !.game.eraser = CASE tool = Tool_Pencil -> "None"
                          [] tool = Tool_EraserWall -> "Wall"
                          [] tool = Tool_EraserWater -> "Water"
                          [] OTHER -> @]

\* selectDrawMode (main.cpp:430-434)
selectDrawMode(c, mode) ==
    [c EXCEPT
        !.buttons = [@ EXCEPT ![Tool_Line] = (mode = "Line"),
                              ![Tool_Free] = (mode = "Free")],
        !.game.drawmode = mode]

\* the switch on btn.tag of check (main.cpp:468-487), flash included
toggleAction(c, a) ==
    LET tag == buttonTag[a]
        d == CASE tag = Action_Reset -> resetField(c)
               [] tag = Action_Pause -> [c EXCEPT !.game.paused = ~@]
               [] tag = Action_ClearLines -> [c EXCEPT !.field = clearLines(@)]
               [] tag = Action_ClearWater -> clearWater(c)
               [] tag = Action_Rain -> [c EXCEPT !.game.rainmode = ~@]
               [] OTHER -> c
    IN  [d EXCEPT !.buttons[a] = FALSE]

\* the body of check's loop running an action whenever the button is up over
\* it, falling edge or not
checkButtonLevel(c, a, m) ==
    LET c1 == IF m.leftDown /\ ~m.oldLeftDown /\ checkInside(m, a)
              THEN CASE a = Tool_Pencil -> selectTool(c, Tool_Pencil)
                     [] a = Tool_EraserWall -> selectTool(c, Tool_EraserWall)
                     [] a = Tool_EraserWater -> selectTool(c, Tool_EraserWater)
                     [] a = Tool_Line -> selectDrawMode(c, "Line")
                     [] a = Tool_Free -> selectDrawMode(c, "Free")
                     [] OTHER -> c
              ELSE c
    IN  IF checkInside(m, a) /\ ~m.leftDown /\ isToggler(a)
        THEN toggleAction(c1, a)
        ELSE c1

\* the body of check's loop selecting tools while the button is down, edge or not
checkButtonHeld(c, a, m) ==
    LET c1 == IF m.leftDown /\ checkInside(m, a)
              THEN CASE a = Tool_Pencil -> selectTool(c, Tool_Pencil)
                     [] a = Tool_EraserWall -> selectTool(c, Tool_EraserWall)
                     [] a = Tool_EraserWater -> selectTool(c, Tool_EraserWater)
                     [] a = Tool_Line -> selectDrawMode(c, "Line")
                     [] a = Tool_Free -> selectDrawMode(c, "Free")
                     [] OTHER -> c
              ELSE c
    IN  IF checkInside(m, a) /\ ~m.leftDown /\ m.oldLeftDown /\ isToggler(a)
        THEN toggleAction(c1, a)
        ELSE c1

\* one iteration of the loop of check (main.cpp:437-491)
checkButton(c, a, m) ==
    LET c1 == IF m.leftDown /\ ~m.oldLeftDown /\ checkInside(m, a)
              THEN CASE a = Tool_Pencil -> selectTool(c, Tool_Pencil)
                     [] a = Tool_EraserWall -> selectTool(c, Tool_EraserWall)
                     [] a = Tool_EraserWater -> selectTool(c, Tool_EraserWater)
                     [] a = Tool_Line -> selectDrawMode(c, "Line")
                     [] a = Tool_Free -> selectDrawMode(c, "Free")
                     [] OTHER -> c
              ELSE c
    IN  IF checkInside(m, a) /\ ~m.leftDown /\ m.oldLeftDown /\ isToggler(a)
        THEN toggleAction(c1, a)
        ELSE c1

RECURSIVE checkFrom(_, _, _)
checkFrom(c, a, m) ==
    IF a >= NumButtons THEN c ELSE checkFrom(checkButton(c, a, m), a + 1, m)

\* check (main.cpp:436-492)
check(c, m) == checkFrom(c, 0, m)

\* TMouse::update (mouse.cpp:88-109) from the host's input_mouse_x/y/btn
mouseUpdate(m, ix, iy, bState) ==
    [x |-> ix, y |-> iy,
     oldLeftDown |-> m.leftDown, oldRightDown |-> m.rightDown,
     leftDown |-> (bState = 1), rightDown |-> (bState = 2)]

\* ------------------------------------------------------------------------
\* Simulation step (main.cpp:718-833), in place on one grid
\* ------------------------------------------------------------------------
\* the guard without its "> 0" half
isActiveFromZero(v) == v < WALL_VALUE

\* the guard both passes put on a cell (main.cpp:726, 777)
isActive(v) == v > 0 /\ v < WALL_VALUE

\* the neighbour a direction code names: 1 up, 2 down, 3 left, 4 right
neighbour(x, y, b) ==
    CASE b = 1 -> <<x, y - 1>>
      [] b = 2 -> <<x, y + 1>>
      [] b = 3 -> <<x - 1, y>>
      [] b = 4 -> <<x + 1, y>>

\* one "if (v < q) { q = v; b = code; }" of the scans, on best = [q, b]
scanStep(v, code, best) == IF v < best.q THEN [q |-> v, b |-> code] ELSE best

\* the Pass 1 scan taking left before up
pass1ScanLeftFirst(u, d, l, r) ==
    scanStep(r, 4, scanStep(u, 1, scanStep(l, 3, [q |-> d, b |-> 2]))).b

\* Pass 1 scan: down by default, then up, left, right (main.cpp:734-749)
pass1Scan(u, d, l, r) ==
    scanStep(r, 4, scanStep(l, 3, scanStep(u, 1, [q |-> d, b |-> 2]))).b

pass1Direction(f, x, y) ==
    pass1Scan(f[x][y - 1], f[x][y + 1], f[x - 1][y], f[x + 1][y])

\* the Pass 2 scan taking up before left and right
pass2ScanUpFirst(u, d, l, r) ==
    scanStep(r, 4, scanStep(l, 3, scanStep(u, 1, [q |-> d, b |-> 2]))).b

\* Pass 2 scan: down by default, then left, right, up (main.cpp:783-797)
pass2Scan(u, d, l, r) ==
    scanStep(u, 1, scanStep(r, 4, scanStep(l, 3, [q |-> d, b |-> 2]))).b

pass2Direction(f, x, y) ==
    pass2Scan(f[x][y - 1], f[x][y + 1], f[x - 1][y], f[x + 1][y])

\* Pass 1 giving the unit without looking at the destination
pass1GiveUnchecked(f, n) == [f EXCEPT ![n[1]][n[2]] = U8(@ + 1)]

\* Pass 1, lines 751-769: the unit goes to neighbour n if n is below MAX_WATER
pass1Give(f, n) ==
    IF f[n[1]][n[2]] < MAX_WATER THEN [f EXCEPT ![n[1]][n[2]] = U8(@ + 1)] ELSE f

\* Pass 1, lines 729-769, on the grid with the cell already decremented
pass1Flow(f, x, y) == pass1Give(f, neighbour(x, y, pass1Direction(f, x, y)))

\* Pass 1 on an active cell that gives a unit without taking it from the cell
pass1ActiveNoDecay(f, x, y) ==
    IF isActive(f[x][y]) THEN pass1Flow(f, x, y) ELSE f

\* Pass 1, lines 726-770, on the grid after the drain check
pass1Active(f, x, y) ==
    IF isActive(f[x][y]) THEN pass1Flow([f EXCEPT ![x][y] = U8(@ - 1)], x, y) ELSE f

\* the body of the Pass 1 loops without the drain check
pass1CellNoDrain(f, x, y) == pass1Active(f, x, y)

\* the body of the Pass 1 loops for one cell (main.cpp:723-770)
pass1Cell(f, x, y) ==
    pass1Active(IF f[x][y + 1] = DRAIN_VALUE THEN [f EXCEPT ![x][y] = 0] ELSE f, x, y)

\* flowAmt moving a single unit
flowAmtUnit(v) == IF v >= 1 THEN 1 ELSE v

\* flowAmt (main.cpp:800-801)
flowAmt(v) == IF v >= DENSITY_FLOW THEN DENSITY_FLOW ELSE v

\* Pass 2 transfer that forgets to take amt from the source cell
pass2GiveKeepsSource(f, x, y, n, amt) ==
    IF amt > 0 /\ f[n[1]][n[2]] < MAX_WATER
    THEN [f EXCEPT ![n[1]][n[2]] = U8(@ + amt)]
    ELSE f

\* Pass 2, lines 802-829: amt goes from (x, y) to n if n is below MAX_WATER
pass2Give(f, x, y, n, amt) ==
    IF amt > 0 /\ f[n[1]][n[2]] < MAX_WATER
    THEN [f EXCEPT ![n[1]][n[2]] = U8(@ + amt), ![x][y] = U8(@ - amt)]
    ELSE f

\* the body of the Pass 2 loops for one cell (main.cpp:777-830)
pass2Cell(f, x, y) ==
    IF isActive(f[x][y])
    THEN pass2Give(f, x, y, neighbour(x, y, pass2Direction(f, x, y)), flowAmt(f[x][y]))
    ELSE f

\* a cell the Pass 1 body leaves as it is: not under a drain and not active
pass1Skips(f, x, y) == f[x][y + 1] # DRAIN_VALUE /\ ~isActive(f[x][y])

\* the inner loop of Pass 1 visiting the rows top first: row FIELD_HEIGHT-1-y
\* is visited where the loop visits row y
RECURSIVE pass1RowsTopFirst(_, _, _)
pass1RowsTopFirst(f, x, y) ==
    IF y <= 0 THEN f
    ELSE IF pass1Skips(f, x, FIELD_HEIGHT - 1 - y) THEN pass1RowsTopFirst(f, x, y - 1)
    ELSE pass1RowsTopFirst(pass1Cell(f, x, FIELD_HEIGHT - 1 - y), x, y - 1)

\* the inner loop of Pass 1: y descending from FIELD_HEIGHT-2 to 1
RECURSIVE pass1Rows(_, _, _)
pass1Rows(f, x, y) ==
    IF y <= 0 THEN f
    ELSE IF pass1Skips(f, x, y) THEN pass1Rows(f, x, y - 1)
    ELSE pass1Rows(pass1Cell(f, x, y), x, y - 1)

\* the outer loop of Pass 1: x ascending over 1..SCREEN_WIDTH-2
RECURSIVE pass1Cols(_, _)
pass1Cols(f, x) ==
    IF x >= SCREEN_WIDTH - 1 THEN f
    ELSE IF \A y \in 1..(FIELD_HEIGHT - 2) : pass1Skips(f, x, y) THEN pass1Cols(f, x + 1)
    ELSE pass1Cols(pass1Rows(f, x, FIELD_HEIGHT - 2), x + 1)

\* Pass 1 (main.cpp:721-772)
pass1(f) == pass1Cols(f, 1)

\* the inner loop of Pass 2: y descending from FIELD_HEIGHT-2 to 1
RECURSIVE pass2Rows(_, _, _)
pass2Rows(f, x, y) ==
    IF y < 1 THEN f
    ELSE IF ~isActive(f[x][y]) THEN pass2Rows(f, x, y - 1)
    ELSE pass2Rows(pass2Cell(f, x, y), x, y - 1)

\* the outer loop of Pass 2: x descending from SCREEN_WIDTH-2 to 1
RECURSIVE pass2Cols(_, _)
pass2Cols(f, x) ==
    IF x <= 0 THEN f
    ELSE IF \A y \in 1..(FIELD_HEIGHT - 2) : ~isActive(f[x][y]) THEN pass2Cols(f, x - 1)
    ELSE pass2Cols(pass2Rows(f, x, FIELD_HEIGHT - 2), x - 1)

\* Pass 2 (main.cpp:775-832)
pass2(f) == pass2Cols(f, SCREEN_WIDTH - 2)

\* the simulation step of an unpaused update
simulate(f) == pass2(pass1(f))

\* rain that spares the cells holding a wall
rainSpawnKeepsWalls(f, hit) ==
    [x \in Cols |-> [y \in Rows |->
        IF y = 1 /\ x >= 1 /\ x < FIELD_WIDTH - 1 /\ x \in hit /\ f[x][y] # WALL_VALUE
        THEN WATER_SPAWN_AMOUNT ELSE f[x][y]]]

\* ------------------------------------------------------------------------
\* update (main.cpp:646-834)
\* ------------------------------------------------------------------------
\* rain (main.cpp:652-657): hit is the set of columns u whose draw
\* random_int(RAIN_PROBABILITY) came out 1
rainSpawn(f, hit) ==
    [x \in Cols |-> [y \in Rows |->
        IF y = 1 /\ x >= 1 /\ x < FIELD_WIDTH - 1 /\ x \in hit
        THEN WATER_SPAWN_AMOUNT ELSE f[x][y]]]

\* right button adding water whatever the eraser mode
rightButtonWater(f, g, m, tape) ==
    IF m.rightDown THEN addWater(f, m.x, m.y, tape) ELSE f

\* right button (main.cpp:659-671)
rightButton(f, g, m, tape) ==
    IF m.rightDown
    THEN CASE g.eraser = "None" -> addWater(f, m.x, m.y, tape)
           [] g.eraser = "Wall" -> killWall(f, m.x, m.y)
           [] g.eraser = "Water" -> killWater(f, m.x, m.y)
    ELSE f

\* left click erasing (main.cpp:673-679)
leftEraseWater(f, g, m) ==
    IF g.eraser = "Water" THEN killWater(f, m.x, m.y) ELSE f

leftErase(f, g, m) ==
    IF m.leftDown
    THEN leftEraseWater(IF g.eraser = "Wall" THEN killWall(f, m.x, m.y) ELSE f, g, m)
    ELSE f

\* Line mode, the release edge (main.cpp:693-696)
drawLineRelease(d, m) ==
    IF ~m.leftDown /\ m.oldLeftDown /\ d.input.hasLeft
    THEN [d EXCEPT !.input.hasLeft = FALSE,
                   !.field = logic_line(@, d.input.x1, d.input.y1, m.x, m.y)]
    ELSE d

\* drawing logic in Line mode (main.cpp:683-696) on d = [field, input]
drawLine(d, m) ==
    drawLineRelease(IF m.leftDown /\ ~m.oldLeftDown /\ m.x < FIELD_WIDTH
                    THEN [d EXCEPT !.input.hasLeft = TRUE,
                                   !.input.x1 = m.x, !.input.y1 = m.y]
                    ELSE d, m)

\* Free mode, the release (main.cpp:711-712)
drawFreeRelease(d, m) ==
    IF ~m.leftDown THEN [d EXCEPT !.input.mayDraw = FALSE] ELSE d

\* Free mode, a held frame that keeps the anchor where the press put it
drawFreeHeldNoAnchor(d, m) ==
    drawFreeRelease(IF m.leftDown /\ m.oldLeftDown /\ d.input.hasLeft /\ d.input.mayDraw
                    THEN [d EXCEPT !.field = logic_line(@, d.input.x1, d.input.y1, m.x, m.y)]
                    ELSE d, m)

\* Free mode, a held frame (main.cpp:705-710)
drawFreeHeld(d, m) ==
    drawFreeRelease(IF m.leftDown /\ m.oldLeftDown /\ d.input.hasLeft /\ d.input.mayDraw
                    THEN [d EXCEPT !.field = logic_line(@, d.input.x1, d.input.y1, m.x, m.y),
                                   !.input.x1 = m.x, !.input.y1 = m.y]
                    ELSE d, m)

\* drawing logic in Free mode (main.cpp:697-713)
drawFree(d, m) ==
    drawFreeHeld(IF m.leftDown /\ ~m.oldLeftDown /\ m.x < FIELD_WIDTH
                 THEN [d EXCEPT !.input.mayDraw = TRUE, !.input.hasLeft = TRUE,
                                !.input.x1 = m.x, !.input.y1 = m.y]
                 ELSE d, m)

\* drawing logic without the eraser guard of line 682
drawingUnguarded(d, g, m) ==
    IF g.drawmode = "Line" THEN drawLine(d, m) ELSE drawFree(d, m)

\* drawing logic (main.cpp:681-714)
drawing(d, g, m) ==
    IF g.eraser = "None"
    THEN IF g.drawmode = "Line" THEN drawLine(d, m) ELSE drawFree(d, m)
    ELSE d

\* ------------------------------------------------------------------------
\* State
\* ------------------------------------------------------------------------
VARIABLES
    field,      \* uint8_t field[SCREEN_WIDTH][SCREEN_HEIGHT]  (main.cpp:37)
    game,       \* GameState game                              (main.cpp:85-91)
    input,      \* InputState input                            (main.cpp:96-100)
    mouse,      \* TMouse mouse                                (mouse.h:63-71)
    buttons,    \* buttons[a].isDown                           (button.h:44)
    host        \* what the host supplied to the last update: the rain draws
                \* that came out 1 and the random_int tape of addWater

vars == <<field, game, input, mouse, buttons, host>>

noTape == [start |-> 0, step |-> 0]

\* the globals as their initialisers and constructors leave them
\* (main.cpp:37, 85-100; mouse.cpp:19-25; button.h:45)
constructed ==
    [field |-> [x \in Cols |-> [y \in Rows |-> 0]],
     game |-> [eraser |-> "None", drawmode |-> "Line", rainmode |-> FALSE,
               paused |-> FALSE, frames |-> 0],
     buttons |-> [a \in Buttons |-> FALSE]]

\* the state init() leaves (main.cpp:630-635): resetField, then drawUI, which
\* presses the Pencil and Line buttons (main.cpp:527-528)
Init ==
    /\ field = resetField(constructed).field
    /\ game = resetField(constructed).game
    /\ input = [hasLeft |-> FALSE, mayDraw |-> TRUE, x1 |-> 0, y1 |-> 0]
    /\ mouse = [x |-> SCREEN_WIDTH \div 2, y |-> SCREEN_HEIGHT \div 2,
                leftDown |-> FALSE, rightDown |-> FALSE,
                oldLeftDown |-> FALSE, oldRightDown |-> FALSE]
    /\ buttons = [constructed.buttons EXCEPT ![Tool_Pencil] = TRUE, ![Tool_Line] = TRUE]
    /\ host = [rain |-> {}, tape |-> noTape]

\* the interior columns rain can hit (main.cpp:653)
RainColumns == 1..(FIELD_WIDTH - 2)

\* the edits of update() (main.cpp:651-714) on the grid check() left:
\* rain, the right button, left-click erasing, the drawing logic
edits(m, c, hit, tape) ==
    drawing([field |-> leftErase(rightButton(
                          IF c.game.rainmode /\ ~c.game.paused
                          THEN rainSpawn(c.field, hit) ELSE c.field,
                          c.game, m, tape), c.game, m),
             input |-> input], c.game, m)

\* the end of update() running the simulation step whether paused or not
finishUnpaused(m, c, d, hit, tape) ==
    /\ mouse' = m
    /\ buttons' = c.buttons
    /\ game' = [c.game EXCEPT !.frames = @ + 1]
    /\ input' = d.input
    /\ field' = simulate(d.field)
    /\ host' = [rain |-> hit, tape |-> tape]

\* the end of update() (main.cpp:716-833): frames++ and the simulation step
finish(m, c, d, hit, tape) ==
    /\ mouse' = m
    /\ buttons' = c.buttons
    /\ game' = [c.game EXCEPT !.frames = @ + 1]
    /\ input' = d.input
    /\ field' = IF c.game.paused THEN d.field ELSE simulate(d.field)
    /\ host' = [rain |-> hit, tape |-> tape]

\* update() once the mouse is read and check() has run; the rain draws are
\* taken from hits when rain is consulted and the addWater tape from tapes
\* when addWater runs
afterCheck(m, c, hits, tapes) ==
    \E hit \in (IF c.game.rainmode /\ ~c.game.paused THEN hits ELSE {{}}),
       tape \in (IF m.rightDown /\ c.game.eraser = "None" THEN tapes ELSE {noTape}) :
        finish(m, c, edits(m, c, hit, tape), hit, tape)

afterMouse(m, hits, tapes) ==
    afterCheck(m, check([field |-> field, game |-> game, buttons |-> buttons], m),
               hits, tapes)

\* update() (main.cpp:646-834) on the host input (ix, iy, bState)
update(ix, iy, bState, hits, tapes) ==
    afterMouse(mouseUpdate(mouse, ix, iy, bState), hits, tapes)

\* ------------------------------------------------------------------------
\* Specification Spec: MaxFrames updates, each on any host input of Inputs
\* (a pointer position and a button state 0 none, 1 left, 2 right), any rain
\* draws of RainHits and any addWater tape of Tapes
\* ------------------------------------------------------------------------
MaxFrames == 3

\* a left press on each tool button, a left release on each action button
ToolPresses == {<<buttonX1, buttonRow[a], 1>> : a \in {b \in Buttons : ~isToggler(b)}}

TogglerReleases == {<<buttonX1, buttonRow[a], 0>> : a \in {b \in Buttons : isToggler(b)}}

FieldInputs == {<<1, 1, 1>>, <<3, 3, 1>>, <<3, 3, 0>>, <<2, 3, 2>>}

Inputs == ToolPresses \cup TogglerReleases \cup FieldInputs

\* the rain draws: no column, one column, every column
RainHits == {h \in SUBSET RainColumns : Cardinality(h) <= 1} \cup {RainColumns}

Tapes == {noTape, [start |-> 1, step |-> 1]}

Tick ==
    /\ game.frames < MaxFrames
    /\ \E i \in Inputs : update(i[1], i[2], i[3], RainHits, Tapes)

Next == Tick

Spec == Init /\ [][Next]_vars

\* ------------------------------------------------------------------------
\* Specification SpecShaft: one host session.  The Line tool walls off a
\* shaft, column 1 over rows 1..3 (a wall down column 2, a floor in row 4),
\* a click on the rain button turns rain on and the pointer then rests;
\* the rain draws over the shaft are free, and so is the first draw over
\* column 3, which falls into the open part of the field
\* ------------------------------------------------------------------------
MaxShaftFrames == 40

ShaftScript ==
    << <<2, 1, 1>>, <<2, 4, 0>>,
       <<1, 4, 1>>, <<2, 4, 0>>,
       <<buttonX1, buttonRow[0], 1>>, <<buttonX1, buttonRow[0], 0>> >>

ShaftInput ==
    IF game.frames < Len(ShaftScript)
    THEN ShaftScript[game.frames + 1]
    ELSE <<buttonX1, buttonRow[0], 0>>

ShaftHits ==
    IF game.frames = Len(ShaftScript) - 1 THEN SUBSET {1, 3} ELSE SUBSET {1}

ShaftTick ==
    /\ game.frames < MaxShaftFrames
    /\ update(ShaftInput[1], ShaftInput[2], ShaftInput[3], ShaftHits, {noTape})

ShaftNext == ShaftTick

SpecShaft == Init /\ [][ShaftNext]_vars

\* ------------------------------------------------------------------------
\* Specification SpecLine: one stroke of the left button.  A press at any
\* point of the screen, held over HoldPoints for up to MaxLineFrames - 2
\* updates, released at any point of the screen
\* ------------------------------------------------------------------------
MaxLineFrames == 3

ScreenPoints == Cols \X Rows

HoldPoints == {<<2, 2>>, <<buttonX1, buttonRow[Tool_Free]>>}

LineTick ==
    /\ game.frames < MaxLineFrames
    /\ \/ /\ game.frames = 0
          /\ \E p \in ScreenPoints : update(p[1], p[2], 1, {{}}, {noTape})
       \/ /\ mouse.leftDown
          /\ \E p \in HoldPoints : update(p[1], p[2], 1, {{}}, {noTape})
       \/ /\ mouse.leftDown
          /\ \E p \in ScreenPoints : update(p[1], p[2], 0, {{}}, {noTape})

LineNext == LineTick

SpecLine == Init /\ [][LineNext]_vars

\* ------------------------------------------------------------------------
\* Specification SpecCell: the simulation step as a function of the grid.
\* The grid is the one init() leaves with the cell (CentreX, CentreY) and its
\* four neighbours filled from CentreValues and NeighbourValues, Drain among
\* them; the pointer rests and each update runs the two passes on the grid
\* ------------------------------------------------------------------------
MaxCellFrames == 2

CentreX == 2

CentreY == 3

CentreValues == {1, 2, MAX_WATER, MAX_WATER + 1, WALL_VALUE, DRAIN_VALUE}

NeighbourValues == {0, MAX_WATER - 1, MAX_WATER, WALL_VALUE, DRAIN_VALUE}

\* the grid of init() with v in the centre cell and n around it
cellGrid(v, n) ==
    [resetField(constructed).field EXCEPT
        ![CentreX][CentreY] = v,
        ![CentreX][CentreY - 1] = n[1], ![CentreX][CentreY + 1] = n[2],
        ![CentreX - 1][CentreY] = n[3], ![CentreX + 1][CentreY] = n[4]]

InitCell ==
    /\ \E v \in CentreValues, n \in NeighbourValues \X NeighbourValues
                                   \X NeighbourValues \X NeighbourValues :
           field = cellGrid(v, n)
    /\ game = resetField(constructed).game
    /\ input = [hasLeft |-> FALSE, mayDraw |-> TRUE, x1 |-> 0, y1 |-> 0]
    /\ mouse = [x |-> SCREEN_WIDTH \div 2, y |-> SCREEN_HEIGHT \div 2,
                leftDown |-> FALSE, rightDown |-> FALSE,
                oldLeftDown |-> FALSE, oldRightDown |-> FALSE]
    /\ buttons = [constructed.buttons EXCEPT ![Tool_Pencil] = TRUE, ![Tool_Line] = TRUE]
    /\ host = [rain |-> {}, tape |-> noTape]

CellTick ==
    /\ game.frames < MaxCellFrames
    /\ update(mouse.x, mouse.y, 0, {{}}, {noTape})

CellNext == CellTick

SpecCell == InitCell /\ [][CellNext]_vars

\* ------------------------------------------------------------------------
\* Specification SpecPause: MaxPauseFrames updates on the pause and rain
\* buttons, a right click that adds water and a left press inside the field
\* ------------------------------------------------------------------------
MaxPauseFrames == 6

PauseButton == 6

RainButton == 0

PauseInputs ==
    {<<buttonX1, buttonRow[PauseButton], 1>>, <<buttonX1, buttonRow[PauseButton], 0>>,
     <<buttonX1, buttonRow[RainButton], 0>>, <<2, 3, 2>>, <<1, 1, 1>>}

PauseHits == {{}, {2}}

PauseTick ==
    /\ game.frames < MaxPauseFrames
    /\ \E i \in PauseInputs : update(i[1], i[2], i[3], PauseHits, Tapes)

PauseNext == PauseTick

SpecPause == Init /\ [][PauseNext]_vars

\* ------------------------------------------------------------------------
\* Specification SpecDrag: MaxDragFrames updates of left-button strokes with
\* the pencil: a press on the Free or the Line button, the button pressed or
\* held at three points of the field, and released in the field
\* ------------------------------------------------------------------------
MaxDragFrames == 6

DragInputs ==
    {<<buttonX1, buttonRow[Tool_Free], 1>>, <<buttonX1, buttonRow[Tool_Line], 1>>,
     <<1, 1, 1>>, <<3, 3, 1>>, <<1, 3, 1>>, <<3, 3, 0>>}

DragTick ==
    /\ game.frames < MaxDragFrames
    /\ \E i \in DragInputs : update(i[1], i[2], i[3], {{}}, {noTape})

DragNext == DragTick

SpecDrag == Init /\ [][DragNext]_vars

\* ------------------------------------------------------------------------
\* Specification SpecToggle: the Line tool draws a wall from (1, 1) to (3, 3)
\* and a right click adds water above (2, 3); then the left button is
\* pressed, held or released over the five action buttons, up to
\* MaxToggleFrames updates in all
\* ------------------------------------------------------------------------
MaxToggleFrames == 8

ResetButton == 7

ClearLinesButton == 8

ClearWaterButton == 9

ToggleScript == << <<1, 1, 1>>, <<3, 3, 0>>, <<2, 3, 2>> >>

ToggleInputs ==
    {<<buttonX1, buttonRow[a], b>> : a \in {t \in Buttons : isToggler(t)}, b \in {0, 1}}

ToggleHits == {{}, {2}}

ToggleTick ==
    /\ game.frames < MaxToggleFrames
    /\ \E i \in (IF game.frames < Len(ToggleScript)
                  THEN {ToggleScript[game.frames + 1]} ELSE ToggleInputs) :
           update(i[1], i[2], i[3], ToggleHits, {[start |-> 1, step |-> 1]})

ToggleNext == ToggleTick

SpecToggle == Init /\ [][ToggleNext]_vars

\* ------------------------------------------------------------------------
\* Specification SpecErase: the Line tool draws a wall from (1, 1) to (3, 3)
\* and a right click adds water above (2, 3); then the tool buttons are
\* pressed and the left or right button is used in the field, up to
\* MaxEraseFrames updates in all
\* ------------------------------------------------------------------------
MaxEraseFrames == 7

EraseScript == << <<1, 1, 1>>, <<3, 3, 0>>, <<2, 3, 2>> >>

EraseInputs ==
    {<<buttonX1, buttonRow[Tool_EraserWall], 1>>, <<buttonX1, buttonRow[Tool_EraserWater], 1>>,
     <<1, 1, 1>>, <<3, 3, 1>>, <<3, 3, 0>>, <<2, 3, 2>>}

EraseTick ==
    /\ game.frames < MaxEraseFrames
    /\ \E i \in (IF game.frames < Len(EraseScript)
                  THEN {EraseScript[game.frames + 1]} ELSE EraseInputs) :
           update(i[1], i[2], i[3], {{}}, {[start |-> 1, step |-> 1]})

EraseNext == EraseTick

SpecErase == Init /\ [][EraseNext]_vars

\* ------------------------------------------------------------------------
\* Properties
\* ------------------------------------------------------------------------
\* the border of the playable field
BorderCells ==
    {c \in (0..(FIELD_WIDTH - 1)) \X (0..(FIELD_HEIGHT - 1)) :
        c[1] = 0 \/ c[1] = FIELD_WIDTH - 1 \/ c[2] = 0 \/ c[2] = FIELD_HEIGHT - 1}

\* C1: at the end of every tick, whatever the pointer, button and rain inputs
\* were, every border cell of the playable field (x = 0, x = FIELD_WIDTH-1,
\* y = 0, y = FIELD_HEIGHT-1) holds Wall.
C1_BorderInvariant == \A c \in BorderCells : field[c[1]][c[2]] = WALL_VALUE

\* the wall eraser has just swept the corner of the field, borders included
C1_Witness ==
    /\ game.eraser = "Wall"
    /\ mouse.leftDown /\ mouse.oldLeftDown
    /\ mouse.x = 1 /\ mouse.y = 1
    /\ C1_BorderInvariant

\* C2: in every state reachable from reset, every cell of the playable field
\* that is water (value below WALL_VALUE) has a density of at most MAX_WATER.
C2_DensityBound ==
    \A x \in 0..(FIELD_WIDTH - 1), y \in 0..(FIELD_HEIGHT - 1) :
        isWater(field[x][y]) => field[x][y] >= 0 /\ field[x][y] <= MAX_WATER

\* one Pass 2 step on cell (x, y): f the grid before, g the grid after, n the
\* neighbour the scan chose
pass2StepFrame(f, g, x, y, n) ==
    /\ g[x][y] + g[n[1]][n[2]] = f[x][y] + f[n[1]][n[2]]
    /\ f[n[1]][n[2]] >= MAX_WATER =>
            g[x][y] = f[x][y] /\ g[n[1]][n[2]] = f[n[1]][n[2]]
    /\ \A c \in Cols \X Rows :
            (c # <<x, y>> /\ c # n) => g[c[1]][c[2]] = f[c[1]][c[2]]

pass2StepOk(f, x, y) ==
    IF isActive(f[x][y])
    THEN pass2StepFrame(f, pass2Cell(f, x, y), x, y,
                        neighbour(x, y, pass2Direction(f, x, y)))
    ELSE pass2Cell(f, x, y) = f

\* every step of the Pass 2 sweep that starts on grid f, each on the grid the
\* steps before it left
RECURSIVE pass2RowsOk(_, _, _)
pass2RowsOk(f, x, y) ==
    IF y < 1 THEN TRUE
    ELSE pass2StepOk(f, x, y) /\ pass2RowsOk(pass2Cell(f, x, y), x, y - 1)

RECURSIVE pass2ColsOk(_, _)
pass2ColsOk(f, x) ==
    IF x <= 0 THEN TRUE
    ELSE /\ pass2RowsOk(f, x, FIELD_HEIGHT - 2)
         /\ pass2ColsOk(pass2Rows(f, x, FIELD_HEIGHT - 2), x - 1)

\* C3: every single Pass 2 transfer from an active cell to the neighbour it
\* chose keeps source + destination unchanged; when the destination is not
\* below MAX_WATER both cells are unchanged; no other cell changes in the step.
\* Checked on every step of the Pass 2 sweep an unpaused update runs from the
\* current grid.
C3_Pass2Conserves == pass2ColsOk(pass1(field), SCREEN_WIDTH - 2)

\* the cells the stepper sweeps
StepCells == (1..(SCREEN_WIDTH - 2)) \X (1..(FIELD_HEIGHT - 2))

\* the value of the neighbour Pass 2 chooses for cell c of grid f
pass2Dest(f, c) ==
    f[neighbour(c[1], c[2], pass2Direction(f, c[1], c[2]))[1]]
     [neighbour(c[1], c[2], pass2Direction(f, c[1], c[2]))[2]]

movesAndSkips(f) ==
    /\ \E c \in StepCells : isActive(f[c[1]][c[2]]) /\ pass2Dest(f, c) < MAX_WATER
    /\ \E c \in StepCells : isActive(f[c[1]][c[2]]) /\ pass2Dest(f, c) >= MAX_WATER
    /\ pass2(f) # f

\* Pass 2 starts on a grid where one active cell has room below MAX_WATER in
\* its chosen neighbour and another has none
C3_Witness == movesAndSkips(pass1(field))

\* the state check() works on
current == [field |-> field, game |-> game, buttons |-> buttons]

\* every border cell of the playable field Wall, every other cell Empty
canonical(f) ==
    \A x \in Cols, y \in Rows :
        f[x][y] = IF <<x, y>> \in BorderCells THEN WALL_VALUE ELSE 0

resetIsCanonical(c, r) ==
    /\ canonical(r.field)
    /\ ~r.game.rainmode
    /\ resetField(r) = r
    /\ r.buttons = c.buttons
    /\ [r.game EXCEPT !.rainmode = c.game.rainmode] = c.game

\* C4: from any field and any rain flag, resetField leaves every border cell
\* Wall, every other cell Empty and rain disabled (and nothing else changed);
\* a second resetField leaves the identical state.
C4_ResetCanonical == resetIsCanonical(current, resetField(current))

\* a state resetField has work to do in: rain on, walls and water inside the
\* field
C4_Witness ==
    /\ game.rainmode
    /\ \E x \in 1..(FIELD_WIDTH - 2), y \in 1..(FIELD_HEIGHT - 2) : field[x][y] = WALL_VALUE
    /\ \E x \in 1..(FIELD_WIDTH - 2), y \in 1..(FIELD_HEIGHT - 2) :
            field[x][y] > 0 /\ field[x][y] < WALL_VALUE
    /\ resetField(current) # current

\* C5: for all endpoint pairs a, b, walkLine from a to b and walkLine from b
\* to a invoke the callback on exactly the same set of cells.  The pairs are
\* the anchor of the stroke and the pointer.
C5_LineSymmetric ==
    lineCells(input.x1, input.y1, mouse.x, mouse.y)
        = lineCells(mouse.x, mouse.y, input.x1, input.y1)

\* a stroke from an anchor to a point left of it in another row has just been
\* committed, and the walls are those of the line walked from the pointer
C5_Witness ==
    /\ ~mouse.leftDown /\ mouse.oldLeftDown
    /\ mouse.x < input.x1 /\ mouse.y # input.y1
    /\ field # resetField(current).field
    /\ field = logic_line(resetField(current).field,
                          mouse.x, mouse.y, input.x1, input.y1)

\* the cells of the closed axis-aligned segment between p and q
segment(p, q) ==
    {c \in Cols \X Rows :
        \/ /\ p[2] = q[2] /\ c[2] = p[2]
           /\ (p[1] <= c[1] /\ c[1] <= q[1]) \/ (q[1] <= c[1] /\ c[1] <= p[1])
        \/ /\ p[1] = q[1] /\ c[1] = p[1]
           /\ (p[2] <= c[2] /\ c[2] <= q[2]) \/ (q[2] <= c[2] /\ c[2] <= p[2])}

\* grid f with the cells of s turned to Wall
withWalls(f, s) ==
    [x \in Cols |-> [y \in Rows |-> IF <<x, y>> \in s THEN WALL_VALUE ELSE f[x][y]]]

noWater(f) == \A x \in Cols, y \in Rows : f[x][y] = 0 \/ f[x][y] = WALL_VALUE

\* an update that releases, at in-field point q, a Line-mode stroke pressed
\* at a different in-field point p of the same row or column, on a field
\* without water and with rain off
axisLineRelease(p, q) ==
    /\ game.eraser = "None" /\ game.drawmode = "Line"
    /\ noWater(field) /\ ~game.rainmode
    /\ input.hasLeft /\ mouse.leftDown
    /\ ~mouse'.leftDown /\ ~mouse'.rightDown
    /\ inField(p[1], p[2]) /\ inField(q[1], q[2])
    /\ p # q
    /\ p[1] = q[1] \/ p[2] = q[2]

\* C9: in Line mode with the eraser off, on a field without water, a left
\* press at an in-field point, held, and released at a different in-field
\* point of the same row or column makes every cell of the closed segment
\* between the two points Wall and changes no other cell.
C9_AxisLineCommit ==
    [][axisLineRelease(<<input.x1, input.y1>>, <<mouse'.x, mouse'.y>>)
        => field' = withWalls(field, segment(<<input.x1, input.y1>>,
                                              <<mouse'.x, mouse'.y>>))]_vars

\* a stroke along one row, held for an update, has just been committed across
\* the inside of the field
C9_Witness ==
    /\ game.frames = 3
    /\ ~mouse.leftDown /\ mouse.oldLeftDown
    /\ input.y1 = mouse.y /\ input.x1 = 1 /\ mouse.x = FIELD_WIDTH - 2
    /\ inFieldInterior(mouse.x, mouse.y)
    /\ field = withWalls(resetField(current).field,
                         segment(<<input.x1, input.y1>>, <<mouse.x, mouse.y>>))

\* an update with no button down before or after it: no press, no release,
\* nothing held
quietUpdate ==
    /\ ~mouse.leftDown /\ ~mouse.rightDown
    /\ ~mouse'.leftDown /\ ~mouse'.rightDown

\* C6: a field with no water (only Empty and Wall cells, the post-reset field
\* among them) is a fixed point of the stepper: an unpaused update with no
\* button input and rain off leaves the grid as it was.
C6_NoWaterFixedPoint ==
    [][(quietUpdate /\ noWater(field) /\ ~game.rainmode /\ ~game.paused)
        => field' = field]_vars

\* two updates without input have run unpaused, rain off, and the grid is the
\* post-reset one
C6_Witness ==
    /\ game.frames >= 2
    /\ ~mouse.leftDown /\ ~mouse.rightDown /\ ~mouse.oldLeftDown /\ ~mouse.oldRightDown
    /\ ~game.rainmode /\ ~game.paused
    /\ canonical(field)

\* an unpaused update without input that starts on the post-reset field and
\* whose rain puts a single drop, at (x, 1)
singleDrop(x) ==
    /\ quietUpdate
    /\ canonical(field)
    /\ game.rainmode /\ ~game.paused
    /\ host'.rain = {x}

\* C7 as stated: with a single drop of WATER_SPAWN_AMOUNT at (x, 1) on the
\* post-reset field, after one unpaused update the cell below, field[x][2],
\* holds exactly 1.
C7_SingleDropOne ==
    [][\A x \in RainColumns : singleDrop(x) => field'[x][2] = 1]_vars

\* C7 as amended: after that update field[x][2] holds exactly 2.  Pass 1
\* moves one unit down; Pass 2 moves that unit on to row 3 and then two
\* units from (x, 1) to (x, 2).
C7_SingleDropTwo ==
    [][\A x \in RainColumns : singleDrop(x) => field'[x][2] = 2]_vars

\* the drop has fallen: 2 left in row 1, 2 in row 2, 1 in row 3
C7_Witness ==
    /\ ~mouse.leftDown /\ ~mouse.rightDown /\ ~mouse.oldLeftDown /\ ~mouse.oldRightDown
    /\ game.rainmode /\ ~game.paused
    /\ \E x \in RainColumns :
        /\ host.rain = {x}
        /\ field = [resetField(current).field EXCEPT ![x] = [@ EXCEPT ![1] = 2, ![2] = 2, ![3] = 1]]

\* the buttons of a group that show pressed
pressedAmong(group) == {a \in group : buttons[a]}

\* C8: after init and after any sequence of updates exactly one of the
\* Pencil, EraserWall, EraserWater buttons shows pressed, the one matching
\* game.eraser, and exactly one of the Line, Free buttons shows pressed, the
\* one matching game.drawmode.
C8_ToolGroups ==
    /\ pressedAmong({Tool_Pencil, Tool_EraserWall, Tool_EraserWater})
        = {CASE game.eraser = "None" -> Tool_Pencil
             [] game.eraser = "Wall" -> Tool_EraserWall
             [] game.eraser = "Water" -> Tool_EraserWater}
    /\ pressedAmong({Tool_Line, Tool_Free})
        = {IF game.drawmode = "Line" THEN Tool_Line ELSE Tool_Free}

\* the third update is a click on the EraserWater button: the eraser is
\* Water and only that button of its group shows pressed
C8_Witness ==
    /\ game.frames = 3
    /\ mouse.leftDown /\ ~mouse.oldLeftDown /\ checkInside(mouse, Tool_EraserWater)
    /\ game.eraser = "Water"
    /\ buttons[Tool_EraserWater] /\ ~buttons[Tool_Pencil] /\ ~buttons[Tool_EraserWall]

\* the 5x5 brush square around (cx, cy)
inBrush(cx, cy, x, y) ==
    x >= cx - 2 /\ x <= cx + 2 /\ y >= cy - 2 /\ y <= cy + 2

\* g is f with exactly the interior cells of the brush that are walls
\* (wall = TRUE) or water (wall = FALSE) emptied
brushFrame(f, g, cx, cy, wall) ==
    \A x \in Cols, y \in Rows :
        g[x][y] = IF /\ inBrush(cx, cy, x, y)
                     /\ x > 0 /\ x < FIELD_WIDTH - 1 /\ y > 0 /\ y < FIELD_HEIGHT - 1
                     /\ IF wall THEN f[x][y] = WALL_VALUE ELSE f[x][y] < WALL_VALUE
                  THEN 0 ELSE f[x][y]

\* cursor positions: the pointer's own, the corners of the field and of its
\* interior, positions off the field and over the sidebar
BrushCursors ==
    {<<mouse.x, mouse.y>>, <<0, 0>>, <<1, 1>>, <<2, 3>>, <<-2, -2>>,
     <<FIELD_WIDTH - 1, FIELD_HEIGHT - 1>>, <<FIELD_WIDTH - 2, FIELD_HEIGHT - 2>>,
     <<FIELD_WIDTH, 2>>, <<SCREEN_WIDTH + 1, 1>>}

\* C10: for any cursor position (cx, cy), killWall and killWater set to Empty
\* exactly the cells of the square cx-2..cx+2, cy-2..cy+2 that are interior
\* and are Wall, respectively water, and leave every other cell unchanged.
C10_EraserFrame ==
    \A c \in BrushCursors :
        /\ brushFrame(field, killWall(field, c[1], c[2]), c[1], c[2], TRUE)
        /\ brushFrame(field, killWater(field, c[1], c[2]), c[1], c[2], FALSE)

\* the brush at (1, 1) covers drawn walls and water inside the field, border
\* cells and Empty cells: each eraser empties some cells and must leave the
\* others
C10_Witness ==
    /\ killWall(field, 1, 1) # field
    /\ killWater(field, 1, 1) # field
    /\ killWall(field, 1, 1) # killWater(field, 1, 1)
    /\ \E x \in 1..3, y \in 1..3 : field[x][y] > 0 /\ field[x][y] < WALL_VALUE
    /\ \E x \in 1..3, y \in 1..3 : field[x][y] = WALL_VALUE
    /\ \E x \in 1..3, y \in 1..3 : field[x][y] = 0

\* ------------------------------------------------------------------------
\* C11.  The stepper never mutates Wall or Drain cells: every cell that holds
\* Wall or Drain before a run of Pass 1 and Pass 2 holds the same value after
\* it, also on grids that contain Drain cells
\* ------------------------------------------------------------------------
sentinelsKept(f, g) ==
    \A x \in Cols, y \in Rows :
        f[x][y] \in {WALL_VALUE, DRAIN_VALUE} => g[x][y] = f[x][y]

C11_SentinelsKept == [][sentinelsKept(field, field')]_vars

\* ------------------------------------------------------------------------
\* C12.  Pause freezes the physics: on every update that reaches the
\* simulation step with paused set, the grid the update leaves is the grid
\* check() left with only the right button, the left-click erasers and the
\* drawing logic applied to it, neither rain nor the two passes, also when
\* rain is on; with no button down or released it is the grid unchanged
\* ------------------------------------------------------------------------
\* the grid after check() and the edit operations of an update, without rain
editsOnly(c, m, tape) ==
    drawing([field |-> leftErase(rightButton(c.field, c.game, m, tape), c.game, m),
             input |-> input], c.game, m).field

pausedUpdate ==
    /\ game'.paused
    /\ field' = editsOnly(check(current, mouse'), mouse', host'.tape)
    /\ quietUpdate => field' = field

C12_PauseFreezes == [][game'.paused => pausedUpdate]_vars

\* a paused grid with rain on and water the passes would move, left by an
\* update on which no button was down or released
C12_Witness ==
    /\ game.paused /\ game.rainmode
    /\ ~mouse.leftDown /\ ~mouse.oldLeftDown /\ ~mouse.rightDown /\ ~mouse.oldRightDown
    /\ game.frames > 0
    /\ simulate(field) # field

\* ------------------------------------------------------------------------
\* C13.  Pass 1 direction choice: an active cell is decremented by 1, its
\* destination is the neighbour of minimum raw value among down, up, left,
\* right, the first of them in that order on a tie, and the destination is
\* incremented by 1 iff it is below MAX_WATER, the unit going to no cell
\* otherwise.  Checked on every step of the Pass 1 sweep an update runs from
\* the current grid
\* ------------------------------------------------------------------------
\* the value of the neighbour of (x, y) in direction b
valueAt(f, x, y, b) == f[neighbour(x, y, b)[1]][neighbour(x, y, b)[2]]

\* the least of the four neighbour values
leastAround(f, x, y) ==
    CHOOSE v \in {valueAt(f, x, y, b) : b \in 1..4} :
        \A b \in 1..4 : v <= valueAt(f, x, y, b)

\* the first direction of order whose neighbour holds the least value
firstLeast(f, x, y, order) ==
    order[CHOOSE i \in 1..4 :
            /\ valueAt(f, x, y, order[i]) = leastAround(f, x, y)
            /\ \A j \in 1..(i - 1) : valueAt(f, x, y, order[j]) # leastAround(f, x, y)]

\* down, up, left, right as direction codes
Pass1Order == <<2, 1, 3, 4>>

\* grid g is grid f with (x, y) one lower and n one higher if n was below
\* MAX_WATER
pass1Moved(f, g, x, y, n) ==
    \A c \in Cols \X Rows :
        g[c[1]][c[2]] =
            IF c = <<x, y>> THEN f[x][y] - 1
            ELSE IF c = n /\ f[n[1]][n[2]] < MAX_WATER THEN f[n[1]][n[2]] + 1
            ELSE f[c[1]][c[2]]

pass1StepOk(f, x, y) ==
    (isActive(f[x][y]) /\ f[x][y + 1] # DRAIN_VALUE) =>
        pass1Moved(f, pass1Cell(f, x, y), x, y,
                   neighbour(x, y, firstLeast(f, x, y, Pass1Order)))

RECURSIVE pass1RowsOk(_, _, _)
pass1RowsOk(f, x, y) ==
    IF y <= 0 THEN TRUE
    ELSE pass1StepOk(f, x, y) /\ pass1RowsOk(pass1Cell(f, x, y), x, y - 1)

RECURSIVE pass1ColsOk(_, _)
pass1ColsOk(f, x) ==
    IF x >= SCREEN_WIDTH - 1 THEN TRUE
    ELSE /\ pass1RowsOk(f, x, FIELD_HEIGHT - 2)
         /\ pass1ColsOk(pass1Rows(f, x, FIELD_HEIGHT - 2), x + 1)

C13_Pass1Direction == pass1ColsOk(field, 1)

\* after an update: an active cell whose down neighbour ties with a later
\* one for the least value, and an active cell whose destination is not
\* below MAX_WATER
C13_Witness ==
    /\ game.frames > 0
    /\ \E c \in StepCells :
          /\ isActive(field[c[1]][c[2]]) /\ field[c[1]][c[2] + 1] # DRAIN_VALUE
          /\ valueAt(field, c[1], c[2], 2) = leastAround(field, c[1], c[2])
          /\ \E b \in {1, 3, 4} : valueAt(field, c[1], c[2], b) = leastAround(field, c[1], c[2])
    /\ \E c \in StepCells :
          /\ isActive(field[c[1]][c[2]]) /\ field[c[1]][c[2] + 1] # DRAIN_VALUE
          /\ leastAround(field, c[1], c[2]) >= MAX_WATER

\* ------------------------------------------------------------------------
\* C14.  Pass 2 direction and amount: cells are visited with x descending
\* from the right and, within a column, y descending from the bottom; an
\* active cell's destination is the neighbour of minimum value, the first in
\* the order down, left, right, up on a tie, and min(density, DENSITY_FLOW)
\* moves to it iff the destination is below MAX_WATER.  Checked as: the sweep
\* so described, run on the grid Pass 1 leaves, ends on the grid Pass 2 ends on
\* ------------------------------------------------------------------------
\* down, left, right, up as direction codes
Pass2Order == <<2, 3, 4, 1>>

leastOf(a, b) == IF a <= b THEN a ELSE b

\* the claimed step on cell (x, y) with destination n
pass2Claimed(f, x, y, n) ==
    IF f[n[1]][n[2]] < MAX_WATER
    THEN [f EXCEPT ![n[1]][n[2]] = @ + leastOf(f[x][y], DENSITY_FLOW),
                   ![x][y] = @ - leastOf(f[x][y], DENSITY_FLOW)]
    ELSE f

\* the claimed visits of column x from row y up to row 1
RECURSIVE sweep2Rows(_, _, _)
sweep2Rows(f, x, y) ==
    IF y < 1 THEN f
    ELSE IF f[x][y] > 0 /\ f[x][y] < WALL_VALUE
    THEN sweep2Rows(pass2Claimed(f, x, y, neighbour(x, y, firstLeast(f, x, y, Pass2Order))),
                    x, y - 1)
    ELSE sweep2Rows(f, x, y - 1)

\* the claimed visits of columns x down to 1
RECURSIVE sweep2Cols(_, _)
sweep2Cols(f, x) ==
    IF x < 1 THEN f
    ELSE IF \E y \in 1..(FIELD_HEIGHT - 2) : f[x][y] > 0 /\ f[x][y] < WALL_VALUE
    THEN sweep2Cols(sweep2Rows(f, x, FIELD_HEIGHT - 2), x - 1)
    ELSE sweep2Cols(f, x - 1)

sweep2Agrees(f) == sweep2Cols(f, SCREEN_WIDTH - 2) = pass2(f)

C14_Pass2Sweep == sweep2Agrees(pass1(field))

\* after an update, on the grid Pass 1 leaves: two active cells side by side,
\* the right one giving to the left one, and an active cell whose least
\* neighbours tie between left and up
C14_Witness ==
    /\ game.frames > 0
    /\ \E c \in StepCells :
          /\ isActive(pass1(field)[c[1]][c[2]])
          /\ isActive(pass1(field)[c[1] - 1][c[2]])
          /\ firstLeast(pass1(field), c[1], c[2], Pass2Order) = 3
    /\ \E c \in StepCells :
          /\ isActive(pass1(field)[c[1]][c[2]])
          /\ valueAt(pass1(field), c[1], c[2], 3) = leastAround(pass1(field), c[1], c[2])
          /\ valueAt(pass1(field), c[1], c[2], 1) = leastAround(pass1(field), c[1], c[2])
          /\ valueAt(pass1(field), c[1], c[2], 2) # leastAround(pass1(field), c[1], c[2])

\* ------------------------------------------------------------------------
\* C15.  Drain consumption: in Pass 1 an active water cell whose neighbour
\* directly below is Drain becomes Empty and the decay/advance logic is
\* skipped for it: the step changes no other cell, so no neighbour is
\* incremented on its behalf.  Checked on every step of the Pass 1 sweep an
\* update runs from the current grid
\* ------------------------------------------------------------------------
drainStepOk(f, x, y) ==
    (isActive(f[x][y]) /\ f[x][y + 1] = DRAIN_VALUE) =>
        \A c \in Cols \X Rows :
            pass1Cell(f, x, y)[c[1]][c[2]] = IF c = <<x, y>> THEN 0 ELSE f[c[1]][c[2]]

RECURSIVE drainRowsOk(_, _, _)
drainRowsOk(f, x, y) ==
    IF y <= 0 THEN TRUE
    ELSE drainStepOk(f, x, y) /\ drainRowsOk(pass1Cell(f, x, y), x, y - 1)

RECURSIVE drainColsOk(_, _)
drainColsOk(f, x) ==
    IF x >= SCREEN_WIDTH - 1 THEN TRUE
    ELSE /\ drainRowsOk(f, x, FIELD_HEIGHT - 2)
         /\ drainColsOk(pass1Rows(f, x, FIELD_HEIGHT - 2), x + 1)

C15_DrainConsumes == drainColsOk(field, 1)

\* after an update, water standing directly above a Drain cell
C15_Witness ==
    /\ game.frames > 0
    /\ \E c \in StepCells :
          isActive(field[c[1]][c[2]]) /\ field[c[1]][c[2] + 1] = DRAIN_VALUE

\* ------------------------------------------------------------------------
\* C16.  Bounded overflow: in every reachable state every cell is Wall or
\* holds at most MAX_WATER + DENSITY_FLOW - 1 (= 98), and the two passes run
\* on it leave every cell that was not Wall at most 98: no water becomes
\* Wall or Drain and no cell value wraps below 0 or past the byte
\* ------------------------------------------------------------------------
MaxDensity == MAX_WATER + DENSITY_FLOW - 1

densityWithin(f) ==
    \A x \in Cols, y \in Rows : f[x][y] = WALL_VALUE \/ f[x][y] \in 0..MaxDensity

waterStaysWater(f, g) ==
    \A x \in Cols, y \in Rows : f[x][y] # WALL_VALUE => g[x][y] \in 0..MaxDensity

C16_BoundedOverflow == densityWithin(field) /\ waterStaysWater(field, simulate(field))

\* a cell at the bound, next to cells the passes still move
C16_Witness ==
    /\ \E x \in Cols, y \in Rows : field[x][y] = MaxDensity
    /\ simulate(field) # field

\* ------------------------------------------------------------------------
\* C17.  Cascading fall in Pass 1
\* ------------------------------------------------------------------------
\* the water in the cells (0..x, y)
RECURSIVE waterInRow(_, _, _)
waterInRow(f, y, x) ==
    IF x < 0 THEN 0
    ELSE (IF f[x][y] < WALL_VALUE THEN f[x][y] ELSE 0) + waterInRow(f, y, x - 1)

\* the water in rows k and below
RECURSIVE waterBelow(_, _)
waterBelow(f, k) ==
    IF k > SCREEN_HEIGHT - 1 THEN 0
    ELSE waterInRow(f, k, SCREEN_WIDTH - 1) + waterBelow(f, k + 1)

\* the only water of grid f is one unit at c, with two empty cells beneath
loneUnit(f, c) ==
    /\ f[c[1]][c[2]] = 1 /\ f[c[1]][c[2] + 1] = 0 /\ f[c[1]][c[2] + 2] = 0
    /\ waterBelow(f, 0) = 1

\* C17 as stated, on the grid where the cascade has nothing in its way: the
\* Pass 1 sweep carries a lone unit of water, with empty cells beneath it,
\* more than one row down
C17_CascadingFall ==
    \A c \in StepCells :
        (c[2] <= FIELD_HEIGHT - 4 /\ loneUnit(field, c)) =>
            waterBelow(pass1(field), c[2] + 2) = 1

\* g holds no more water below row k than f holds in row k and below
oneRowAtMost(f, g) == \A k \in Rows : waterBelow(g, k + 1) <= waterBelow(f, k)

\* C17 as amended: Pass 1 updates the grid in place, x ascending and y
\* descending, so the cell below has been visited before a cell gives to it:
\* within one Pass 1 sweep no water falls more than one row (for every row k
\* the water below row k after the sweep is at most the water in row k and
\* below before it)
C17_OneRowPerSweep == oneRowAtMost(field, pass1(field))

\* after an update, a lone unit with two empty cells beneath that the Pass 1
\* sweep leaves in the cell directly below
C17_Witness ==
    /\ game.frames > 0
    /\ \E c \in StepCells :
          /\ c[2] <= FIELD_HEIGHT - 4
          /\ loneUnit(field, c)
          /\ pass1(field)[c[1]][c[2] + 1] = 1

\* ------------------------------------------------------------------------
\* C18.  Line-mode drag protocol, with the pencil (eraserMode None): a wall
\* line is committed only on a left release edge that follows a left press
\* edge detected in Line mode inside the field, from the press position to
\* the release position, and the commit clears the anchor; press and held
\* updates commit nothing, and a release after a press in the sidebar (a
\* click on the Line button after a Free-mode stroke among them) commits no
\* wall.  Stated on the update after a press edge and on every update that
\* is no release
\* ------------------------------------------------------------------------
\* the pencil in Line mode when the drawing logic of this update runs
lineDrawing == game'.eraser = "None" /\ game'.drawmode = "Line"

\* the update before this one saw a left press edge
pressedLast == mouse.leftDown /\ ~mouse.oldLeftDown

\* this update sees a left release edge, not on an action button
releasedNow ==
    /\ mouse.leftDown /\ ~mouse'.leftDown /\ ~mouse'.rightDown
    /\ \A a \in Buttons : ~(isToggler(a) /\ checkInside(mouse', a))

\* a release straight after a press inside the field commits the line from
\* the press position to the release position and clears the anchor
lineCommitted ==
    (pressedLast /\ releasedNow /\ mouse.x < FIELD_WIDTH) =>
        /\ field' = logic_line(field, mouse.x, mouse.y, mouse'.x, mouse'.y)
        /\ ~input'.hasLeft

\* a release straight after a press in the sidebar commits nothing
lineNotAnchored ==
    (pressedLast /\ releasedNow /\ mouse.x >= FIELD_WIDTH) => field' = field

\* an update with the left button down commits nothing
lineHeld == mouse'.leftDown => field' = field

C18_LineProtocol ==
    [][lineDrawing => (lineCommitted /\ lineNotAnchored /\ lineHeld)]_vars

\* ------------------------------------------------------------------------
\* C19.  Free-mode drag protocol, with the pencil (eraserMode None): a left
\* press edge inside the field arms drawing and commits nothing, a press
\* edge in the sidebar does not arm it; every held update of an armed stroke
\* commits exactly the wall-line segment from the previous update's cursor
\* position to the current one and stays armed, a held update of an unarmed
\* stroke commits nothing; an update with the button up commits nothing and
\* disarms
\* ------------------------------------------------------------------------
\* the pencil in Free mode when the drawing logic of this update runs
freeDrawing == game'.eraser = "None" /\ game'.drawmode = "Free"

\* drawing is armed before, and after, this update
armed == input.hasLeft /\ input.mayDraw

armedNext == input'.hasLeft /\ input'.mayDraw

freePress ==
    (~mouse.leftDown /\ mouse'.leftDown) =>
        field' = field /\ (armedNext <=> mouse'.x < FIELD_WIDTH)

freeHeld ==
    (mouse.leftDown /\ mouse'.leftDown) =>
        IF armed
        THEN /\ field' = logic_line(field, mouse.x, mouse.y, mouse'.x, mouse'.y)
             /\ armedNext
        ELSE field' = field /\ ~armedNext

freeUp ==
    (~mouse'.leftDown /\ ~mouse'.rightDown
       /\ \A a \in Buttons : ~(isToggler(a) /\ checkInside(mouse', a))) =>
        field' = field /\ ~armedNext

C19_FreeProtocol == [][freeDrawing => (freePress /\ freeHeld /\ freeUp)]_vars

\* an armed Free-mode stroke after its second held update: pressed at
\* (1, 1), held at (3, 3) and then at (1, 3), walls on both segments (the
\* diagonal walks (2, 1), (3, 2), (4, 3)) and nowhere else inside the field
C19_Witness ==
    /\ game.drawmode = "Free" /\ game.eraser = "None"
    /\ mouse.leftDown /\ mouse.oldLeftDown /\ armed
    /\ mouse.x = 1 /\ mouse.y = 3
    /\ \A x \in Cols, y \in Rows :
          inFieldInterior(x, y) =>
              (field[x][y] = WALL_VALUE <=>
                  <<x, y>> \in lineCells(1, 1, 3, 3) \cup lineCells(3, 3, 1, 3))

\* ------------------------------------------------------------------------
\* C20.  Mode changes are rising-edge only and independent: after an update
\* game.eraser is None, Wall or Water if the update saw the left button go
\* from released to pressed with the cursor inside the pencil, eraser-wall
\* or eraser-water button, and is unchanged on every other update;
\* game.drawmode is Line or Free if it saw such an edge inside the line or
\* free button and is unchanged on every other update
\* ------------------------------------------------------------------------
\* this update sees a left press edge with the cursor inside button a
pressedOn(a) == ~mouse.leftDown /\ mouse'.leftDown /\ checkInside(mouse', a)

eraserAfter ==
    IF pressedOn(Tool_Pencil) THEN "None"
    ELSE IF pressedOn(Tool_EraserWall) THEN "Wall"
    ELSE IF pressedOn(Tool_EraserWater) THEN "Water"
    ELSE game.eraser

drawmodeAfter ==
    IF pressedOn(Tool_Line) THEN "Line"
    ELSE IF pressedOn(Tool_Free) THEN "Free"
    ELSE game.drawmode

C20_ModeChanges ==
    [][game'.eraser = eraserAfter /\ game'.drawmode = drawmodeAfter]_vars

\* the update that pressed the eraser-wall button, in Free mode
C20_Witness ==
    /\ mouse.leftDown /\ ~mouse.oldLeftDown /\ checkInside(mouse, Tool_EraserWall)
    /\ game.eraser = "Wall" /\ game.drawmode = "Free"

\* ------------------------------------------------------------------------
\* C21.  Toggle actions fire once on the falling edge: an action runs on an
\* update exactly when the left button goes from pressed to released with
\* the cursor inside its button.  So paused flips on a falling edge over the
\* pause button and is unchanged otherwise; rainmode flips on one over the
\* rain button, is cleared on one over reset or clear-water, and is
\* unchanged otherwise; and, on an update without brush or line commit, the
\* grid is the old grid (reset, cleared of walls or cleared of water on a
\* falling edge over that button, as it was otherwise) with this update's
\* rain and passes applied
\* ------------------------------------------------------------------------
\* this update sees a left falling edge with the cursor inside button a
fallingOn(a) == mouse.leftDown /\ ~mouse'.leftDown /\ checkInside(mouse', a)

pausedAfter == IF fallingOn(PauseButton) THEN ~game.paused ELSE game.paused

rainmodeAfter ==
    IF fallingOn(RainButton) THEN ~game.rainmode
    ELSE IF fallingOn(ResetButton) \/ fallingOn(ClearWaterButton) THEN FALSE
    ELSE game.rainmode

actionGrid ==
    IF fallingOn(ResetButton) THEN resetField(current).field
    ELSE IF fallingOn(ClearLinesButton) THEN clearLines(field)
    ELSE IF fallingOn(ClearWaterButton) THEN clearWater(current).field
    ELSE field

\* grid f with the rain and the passes of this update
physicsOn(f) ==
    IF game'.paused THEN f
    ELSE simulate(IF game'.rainmode THEN rainSpawn(f, host'.rain) ELSE f)

\* this update applies no brush and commits no line
noEdits ==
    /\ ~mouse'.rightDown
    /\ game'.eraser = "None" /\ game'.drawmode = "Line"
    /\ ~(mouse.leftDown /\ ~mouse'.leftDown /\ input.hasLeft)

C21_ToggleOnce ==
    [][/\ game'.paused = pausedAfter
       /\ game'.rainmode = rainmodeAfter
       /\ noEdits => field' = physicsOn(actionGrid)]_vars

\* the update of a falling edge over the clear-walls button: the drawn wall
\* is gone, water is left
C21_Witness ==
    /\ ~mouse.leftDown /\ mouse.oldLeftDown /\ checkInside(mouse, ClearLinesButton)
    /\ \A c \in StepCells : inFieldInterior(c[1], c[2]) => field[c[1]][c[2]] # WALL_VALUE
    /\ \E c \in StepCells : isActive(field[c[1]][c[2]])

\* ------------------------------------------------------------------------
\* C22.  Right-button dispatch: on every update with the right button held
\* exactly one brush is applied at the cursor, addWater with the pencil,
\* killWall with the wall eraser, killWater with the water eraser (the grid
\* left is the grid check() and rain left, with that one brush, then the
\* passes, when no line is committed on the same update); on an update with
\* the right button not held and rain off the brush adds no water: the
\* total water does not grow
\* ------------------------------------------------------------------------
\* the grid after check() and the rain of this update
beforeEdits ==
    IF game'.rainmode /\ ~game'.paused
    THEN rainSpawn(check(current, mouse').field, host'.rain)
    ELSE check(current, mouse').field

\* the one brush the eraser mode selects, at the cursor
brushAtCursor(f) ==
    CASE game'.eraser = "None" -> addWater(f, mouse'.x, mouse'.y, host'.tape)
      [] game'.eraser = "Wall" -> killWall(f, mouse'.x, mouse'.y)
      [] game'.eraser = "Water" -> killWater(f, mouse'.x, mouse'.y)

\* grid f with the passes of this update
passesOn(f) == IF game'.paused THEN f ELSE simulate(f)

\* this update commits a line: a left release in Line mode with an anchor
lineCommit ==
    /\ game'.eraser = "None" /\ game'.drawmode = "Line"
    /\ mouse.leftDown /\ ~mouse'.leftDown /\ input.hasLeft

rightHeld ==
    (mouse'.rightDown /\ ~lineCommit) => field' = passesOn(brushAtCursor(beforeEdits))

rightNotHeld ==
    (~mouse'.rightDown /\ ~game'.rainmode) => waterBelow(field', 0) <= waterBelow(field, 0)

C22_RightDispatch == [][rightHeld /\ rightNotHeld]_vars

\* the update of a right click with the wall eraser, straight after the
\* eraser was selected: the wall drawn from (1, 1) to (3, 3) is gone
C22_Witness ==
    /\ mouse.rightDown /\ game.eraser = "Wall"
    /\ game.frames = Len(EraseScript) + 2
    /\ \A x \in Cols, y \in Rows : inFieldInterior(x, y) => field[x][y] # WALL_VALUE

\* ------------------------------------------------------------------------
\* C23.  Drawing is suppressed while an eraser is active: on every update
\* whose edits run with eraser Wall or Water no cell becomes Wall, whatever
\* the left button does, and with the left button held the grid left is the
\* grid check() and rain left, with killWall or killWater at the cursor,
\* then the passes
\* ------------------------------------------------------------------------
noNewWall == \A x \in Cols, y \in Rows : field'[x][y] = WALL_VALUE => field[x][y] = WALL_VALUE

leftErases ==
    mouse'.leftDown =>
        field' = passesOn(IF game'.eraser = "Wall"
                          THEN killWall(beforeEdits, mouse'.x, mouse'.y)
                          ELSE killWater(beforeEdits, mouse'.x, mouse'.y))

C23_EraserSuppressesDrawing ==
    [][game'.eraser # "None" => (noNewWall /\ leftErases)]_vars

\* the update of a left release in the field with the wall eraser in Line
\* mode, the drawn wall erased: the Line tool would commit a line here
C23_Witness ==
    /\ game.eraser = "Wall" /\ game.drawmode = "Line"
    /\ ~mouse.leftDown /\ mouse.oldLeftDown /\ mouse.x < FIELD_WIDTH
    /\ \A x \in Cols, y \in Rows : inFieldInterior(x, y) => field[x][y] # WALL_VALUE

\* ------------------------------------------------------------------------
\* C24.  clearWalls frame: the clear-walls action sets every interior Wall
\* cell to Empty and leaves every other cell (border cells, water cells with
\* their density, cells outside the field) and the game flags, the rain
\* flag among them, as they were
\* ------------------------------------------------------------------------
clearWallsFrame(c, r) ==
    /\ \A x \in Cols, y \in Rows :
          r.field[x][y] = IF inFieldInterior(x, y) /\ c.field[x][y] = WALL_VALUE
                          THEN 0 ELSE c.field[x][y]
    /\ r.game = c.game

C24_ClearWallsFrame == clearWallsFrame(current, toggleAction(current, ClearLinesButton))

\* the paused update of a falling edge over the clear-walls button: no
\* interior wall is left, the water is
C24_Witness ==
    /\ game.paused
    /\ ~mouse.leftDown /\ mouse.oldLeftDown /\ checkInside(mouse, ClearLinesButton)
    /\ \A x \in Cols, y \in Rows : inFieldInterior(x, y) => field[x][y] # WALL_VALUE
    /\ \E x \in Cols, y \in Rows : isActive(field[x][y])

\* ------------------------------------------------------------------------
\* C25.  clearWater frame: the clear-water action sets every water cell to
\* Empty, leaves every Wall cell a Wall, the border all Wall, and turns rain
\* off, the other game flags unchanged; after it no cell holds a value
\* strictly between 0 and WALL_VALUE
\* ------------------------------------------------------------------------
clearWaterFrame(c, r) ==
    /\ \A x \in Cols, y \in Rows :
          r.field[x][y] = IF c.field[x][y] < WALL_VALUE THEN 0 ELSE c.field[x][y]
    /\ \A b \in BorderCells : r.field[b[1]][b[2]] = WALL_VALUE
    /\ \A x \in Cols, y \in Rows : ~(r.field[x][y] > 0 /\ r.field[x][y] < WALL_VALUE)
    /\ ~r.game.rainmode
    /\ [r.game EXCEPT !.rainmode = c.game.rainmode] = c.game

C25_ClearWaterFrame == clearWaterFrame(current, toggleAction(current, ClearWaterButton))

\* the update of a falling edge over the clear-water button: the brushed
\* water is gone, the drawn wall is left
C25_Witness ==
    /\ ~mouse.leftDown /\ mouse.oldLeftDown /\ checkInside(mouse, ClearWaterButton)
    /\ \A x \in Cols, y \in Rows : ~isActive(field[x][y])
    /\ \E x \in Cols, y \in Rows : inFieldInterior(x, y) /\ field[x][y] = WALL_VALUE
    /\ ~game.rainmode

\* ------------------------------------------------------------------------
\* C26.  addWaterBrush shape and bounds: for any cursor (cx, cy) and any
\* random draws, addWater sets every cell with column in cx-4..cx+4 and row
\* in cy-8..cy-1 that is interior and not Wall to a value in 0..4, whatever
\* it held, and leaves every other cell unchanged: Wall cells, border cells,
\* cells outside the field and cells outside that rectangle.  A cursor whose
\* rectangle misses the interior changes nothing
\* ------------------------------------------------------------------------
inWaterBrush(cx, cy, x, y) ==
    /\ x >= cx - WATER_ADD_RADIUS /\ x <= cx + WATER_ADD_RADIUS
    /\ y >= cy - 2 * WATER_ADD_RADIUS /\ y <= cy - 1

waterFrame(f, g, cx, cy) ==
    \A x \in Cols, y \in Rows :
        IF inWaterBrush(cx, cy, x, y) /\ inFieldInterior(x, y) /\ f[x][y] # WALL_VALUE
        THEN g[x][y] \in 0..(WaterRandomRange - 1)
        ELSE g[x][y] = f[x][y]

\* cursor positions: the pointer's own, inside the field near its top and at
\* its bottom edge, over the sidebar with the rectangle reaching into the
\* field, and with the rectangle off the field to the right and below
WaterCursors ==
    {<<mouse.x, mouse.y>>, <<2, 3>>, <<1, FIELD_HEIGHT>>,
     <<FIELD_WIDTH + 2, 5>>, <<FIELD_WIDTH + WATER_ADD_RADIUS, 5>>,
     <<2, FIELD_HEIGHT + 2 * WATER_ADD_RADIUS>>}

WaterTapes == {noTape, [start |-> 1, step |-> 1], [start |-> 4, step |-> 3]}

C26_AddWaterFrame ==
    \A c \in WaterCursors, t \in WaterTapes :
        waterFrame(field, addWater(field, c[1], c[2], t), c[1], c[2])

\* the rectangle of the cursor (2, 3), rows 1 and 2, holds water denser than
\* the brush writes and a drawn wall; the row below it holds water the brush
\* must leave
C26_Witness ==
    /\ \E y \in 1..2 : field[1][y] >= WaterRandomRange /\ field[1][y] < WALL_VALUE
    /\ field[2][1] = WALL_VALUE
    /\ field[1][3] >= WaterRandomRange /\ field[1][3] < WALL_VALUE
    /\ addWater(field, 2, 3, noTape) # field

\* ------------------------------------------------------------------------
\* C27.  Rain spawn: on an unpaused update with rain on, rain changes only
\* the row-1 cells of the interior columns its draws select and sets each of
\* them to exactly WATER_SPAWN_AMOUNT, whatever the cell held, a drawn Wall
\* included; with rain off it changes no cell.  Stated on the updates with
\* no button down or released, where rain and the passes are all that
\* touches the grid
\* ------------------------------------------------------------------------
\* grid f with WATER_SPAWN_AMOUNT in row 1 of the selected interior columns
rainClaimed(f, selected) ==
    [x \in Cols |-> [y \in Rows |->
        IF y = 1 /\ x \in selected THEN WATER_SPAWN_AMOUNT ELSE f[x][y]]]

rainOnly ==
    (quietUpdate /\ ~game'.paused) =>
        /\ host'.rain \subseteq RainColumns
        /\ ~game'.rainmode => host'.rain = {}
        /\ field' = simulate(rainClaimed(field, host'.rain))

C27_RainSpawn == [][rainOnly]_vars

\* after an update with no button involved whose rain selected column 2:
\* the wall drawn along row 1 is broken at (2, 1)
C27_Witness ==
    /\ ~mouse.leftDown /\ ~mouse.oldLeftDown /\ ~mouse.rightDown /\ ~mouse.oldRightDown
    /\ game.rainmode /\ ~game.paused
    /\ host.rain = {2}
    /\ field[1][1] = WALL_VALUE /\ field[3][1] = WALL_VALUE
    /\ field[2][1] # WALL_VALUE

\* ------------------------------------------------------------------------
\* C28: water never leaks out of the playable field.  Both passes of the
\* stepper sweep the columns 1..SCREEN_WIDTH-2, sidebar included, yet in
\* every state reachable from reset every cell of a column x >= FIELD_WIDTH
\* is Empty (0)
\* ------------------------------------------------------------------------
C28_NoLeak ==
    \A x \in FIELD_WIDTH..(SCREEN_WIDTH - 1), y \in Rows : field[x][y] = 0

\* water stands against the right-hand border: an active cell in column
\* FIELD_WIDTH-2 rests on water that is not below it in density, so the
\* stepper looks sideways from it, and the field has been stepped
C28_Witness ==
    /\ game.frames >= 2
    /\ \E y \in 1..(FIELD_HEIGHT - 3) :
          /\ isActive(field[FIELD_WIDTH - 2][y])
          /\ isActive(field[FIELD_WIDTH - 2][y + 1])
          /\ field[FIELD_WIDTH - 2][y + 1] >= field[FIELD_WIDTH - 2][y]
          /\ field[FIELD_WIDTH - 1][y] = WALL_VALUE

\* ------------------------------------------------------------------------
\* C29: the stepper never creates water.  On an update with rain off and no
\* button input the water mass, the sum of the values of all cells below the
\* Wall sentinel, does not grow.  Every step of the Pass 1 sweep the update
\* runs keeps the mass or loses some, and loses some only when the cell
\* below is Drain or the chosen neighbour is not below MAX_WATER, where the
\* loss is the one unit the neighbour refuses; Pass 2 keeps the mass
\* ------------------------------------------------------------------------
waterMass(f) == waterBelow(f, 0)

\* the value of the neighbour Pass 1 chooses for (x, y)
chosenValue(f, x, y) ==
    f[neighbour(x, y, pass1Direction(f, x, y))[1]][neighbour(x, y, pass1Direction(f, x, y))[2]]

massLost(before, after, f, x, y) ==
    /\ after <= before
    /\ after < before =>
          \/ f[x][y + 1] = DRAIN_VALUE
          \/ chosenValue(f, x, y) >= MAX_WATER /\ after = before - 1

pass1LossOk(f, x, y) == massLost(waterMass(f), waterMass(pass1Cell(f, x, y)), f, x, y)

RECURSIVE massRowsOk(_, _, _)
massRowsOk(f, x, y) ==
    IF y <= 0 THEN TRUE
    ELSE IF pass1Skips(f, x, y) THEN massRowsOk(f, x, y - 1)
    ELSE pass1LossOk(f, x, y) /\ massRowsOk(pass1Cell(f, x, y), x, y - 1)

RECURSIVE massColsOk(_, _)
massColsOk(f, x) ==
    IF x >= SCREEN_WIDTH - 1 THEN TRUE
    ELSE /\ massRowsOk(f, x, FIELD_HEIGHT - 2)
         /\ massColsOk(pass1Rows(f, x, FIELD_HEIGHT - 2), x + 1)

noWaterCreated ==
    (quietUpdate /\ ~game.rainmode /\ ~game'.rainmode) =>
        /\ waterMass(field') <= waterMass(field)
        /\ field' = IF game'.paused THEN field ELSE pass2(pass1(field))
        /\ massColsOk(field, 1)
        /\ waterMass(pass2(pass1(field))) = waterMass(pass1(field))

C29_NoWaterCreated == [][noWaterCreated]_vars

\* the stepper has run, water is left, and the next sweep loses some of it
\* to a neighbour that is not below MAX_WATER: no water stands above a Drain
C29_Witness ==
    /\ game.frames > 0 /\ ~game.rainmode /\ ~game.paused
    /\ ~mouse.leftDown /\ ~mouse.rightDown
    /\ \A x \in 1..(SCREEN_WIDTH - 2), y \in 1..(FIELD_HEIGHT - 2) :
          isActive(field[x][y]) => field[x][y + 1] # DRAIN_VALUE
    /\ waterMass(pass1(field)) < waterMass(field)
    /\ waterMass(pass1(field)) > 0
====
